---- MODULE Spec2Model ----
(***************************************************************************)
(* MemFS: an in-memory file tree with owner / group / everyone permissions *)
(* (FileSystem, Node, getDefaultPermissions), the Permissions record with  *)
(* userHasPermission, and the UserManager singleton that supplies the      *)
(* current user.                                                           *)
(***************************************************************************)
EXTENDS Integers, Sequences, FiniteSets, TLC

VARIABLES
    users,        \* UserManager.users: Map<string, User>, in insertion order
    currentUser,  \* UserManager.currentUser: User | undefined
    nextUser,     \* number of uuids handed out so far
    nodes,        \* the heap of live Node objects, by handle
    cwd,          \* FileSystem.cwd: a handle, or null
    probe,        \* a free-standing Permissions object and a User (unit level)
    last,         \* the last call: operation, arguments, outcome, return value
    task          \* the call suspended at an await, if any, and what it holds

vars == <<users, currentUser, nextUser, nodes, cwd, probe, last, task>>

----------------------------------------------------------------------------
(* Bounds of the model *)

MaxNodes == 2     \* nodes other than the root that can be alive at once
MaxUsers == 2     \* users created over a run

Names == {"a", "b"}           \* names given to files and directories
Contents == {"X"}        \* contents written to files
UserNames == {"test", "test2"}

----------------------------------------------------------------------------
(* Optional values: undefined / null is the empty tuple *)

Undefined == <<>>
Null == <<>>
Idle == <<>>
Some(x) == <<x>>

(* permissions.ts: enum Permission *)
READ == "r"
WRITE == "w"
EXECUTE == "x"
Permission == {READ, WRITE, EXECUTE}

(* enum NodeType *)
File == "File"
Directory == "Directory"

(* class User: id, name, groupId? *)
User(id, name, groupId) == [id |-> id, name |-> name, groupId |-> groupId]

(* class Permissions: the constructor *)
Permissions(owningUserId, owningGroupId, ownerPerms, groupPerms, everyonePerms) ==
    [owningUserId |-> owningUserId, owningGroupId |-> owningGroupId,
     ownerPerms |-> ownerPerms, groupPerms |-> groupPerms,
     everyonePerms |-> everyonePerms]

(* user?.id and user?.groupId: undefined when there is no user *)
OptId(user) == IF user = Undefined THEN Undefined ELSE Some(user[1].id)
OptGroupId(user) == IF user = Undefined THEN Undefined ELSE user[1].groupId

userHasPermissionGroupFirst(perms, permission, user) ==
    IF OptGroupId(user) = Some(perms.owningGroupId)
    THEN permission \in perms.groupPerms
    ELSE IF OptId(user) = Some(perms.owningUserId)
         THEN permission \in perms.ownerPerms
         ELSE permission \in perms.everyonePerms

(* Permissions.userHasPermission(permission, user?) *)
userHasPermission(perms, permission, user) ==
    IF OptId(user) = Some(perms.owningUserId)
    THEN permission \in perms.ownerPerms
    ELSE IF OptGroupId(user) = Some(perms.owningGroupId)
         THEN permission \in perms.groupPerms
         ELSE permission \in perms.everyonePerms

----------------------------------------------------------------------------
(* UserManager *)

(* uuidv4(): a fresh id at every call *)
uuidv4 == "u" \o ToString(nextUser + 1)

(* the ids a caller may pass: every id handed out so far and an unknown one *)
KnownIds == {"u" \o ToString(i) : i \in 1..nextUser} \cup {"nonExistentId"}

(* group arguments of createUser: none, the empty string, a shared group *)
GroupArgs == {Undefined, Some(""), Some("g")}

RECURSIVE FindFirst(_, _, _)
FindFirst(s, i, name) ==
    IF i > Len(s) THEN Undefined
    ELSE IF s[i].name = name THEN Some(s[i])
    ELSE FindFirst(s, i + 1, name)

(* UserManager.findUserById *)
findUserById(userId) ==
    IF \E i \in 1..Len(users) : users[i].id = userId
    THEN Some(users[CHOOSE i \in 1..Len(users) : users[i].id = userId])
    ELSE Undefined

(* UserManager.findUserByName: the first user of that name in insertion order *)
findUserByName(name) == FindFirst(users, 1, name)

(* UserManager.getCurrentUser, and the helper getCurrentUser() of the tree *)
getCurrentUser == currentUser

Call(op, name, arg, res, ret) ==
    [op |-> op, name |-> name, arg |-> arg, res |-> res, ret |-> ret]

----------------------------------------------------------------------------
(* Map<string, Node> with insertion order: a sequence of (key, node) entries *)

MapKeys(m) == [i \in 1..Len(m) |-> m[i].key]
MapHas(m, k) == \E i \in 1..Len(m) : m[i].key = k
MapGet(m, k) ==
    IF MapHas(m, k) THEN Some(m[CHOOSE i \in 1..Len(m) : m[i].key = k].node)
    ELSE Undefined
MapSet(m, k, v) ==
    IF MapHas(m, k)
    THEN [i \in 1..Len(m) |-> IF m[i].key = k THEN [key |-> k, node |-> v] ELSE m[i]]
    ELSE Append(m, [key |-> k, node |-> v])
MapDelete(m, k) == SelectSeq(m, LAMBDA e : e.key # k)

----------------------------------------------------------------------------
(* Node and FileSystem *)

Root == 0
Handles == 0..MaxNodes

(* class Node: the constructor *)
Node(name, nodeType, permissions) ==
    [name |-> name, nodeType |-> nodeType, content |-> "", parent |-> Null,
     children |-> <<>>, permissions |-> permissions]

isFile(n) == nodes[n].nodeType = File
isDirectory(n) == nodes[n].nodeType = Directory

assertCurrentUserCanReadNoUser(n) ==
    userHasPermission(nodes[n].permissions, READ, Undefined)

(* Node.assertCurrentUserCanRead: TRUE when it returns, FALSE when it throws *)
assertCurrentUserCanRead(n) ==
    userHasPermission(nodes[n].permissions, READ, getCurrentUser)

(* Node.assertCurrentUserCanWrite: TRUE when it returns, FALSE when it throws *)
assertCurrentUserCanWrite(n) ==
    userHasPermission(nodes[n].permissions, WRITE, getCurrentUser)

getDefaultPermissionsOwnGroup ==
    LET user == currentUser
    IN  Permissions(IF OptId(user) = Undefined THEN "" ELSE OptId(user)[1],
                    IF OptId(user) = Undefined THEN "" ELSE OptId(user)[1],
                    {READ, WRITE, EXECUTE}, {READ, WRITE, EXECUTE}, {})

(* getDefaultPermissions() *)
getDefaultPermissions ==
    LET user == getCurrentUser
    IN  Permissions(IF OptId(user) = Undefined THEN "" ELSE OptId(user)[1],
                    IF OptGroupId(user) = Undefined THEN "" ELSE OptGroupId(user)[1],
                    {READ, WRITE, EXECUTE}, {READ, WRITE, EXECUTE}, {})

(* the root built by the FileSystem constructor *)
RootNode ==
    Node("", Directory,
         Permissions("1", "1", {READ, WRITE, EXECUTE}, {READ, WRITE, EXECUTE},
                     {READ, WRITE, EXECUTE}))

(* a new object gets the lowest handle not in use *)
HasRoom == \E n \in Handles : n \notin DOMAIN nodes
NewHandle == CHOOSE n \in Handles :
                 n \notin DOMAIN nodes /\ \A m \in Handles \ DOMAIN nodes : n <= m

(* objects that some reference still leads to: the garbage collector keeps   *)
(* what is reachable from root and cwd through children and parent           *)
RECURSIVE Closure(_, _)
Closure(heap, S) ==
    LET T == S
             \cup UNION {{heap[n].children[i].node : i \in 1..Len(heap[n].children)} : n \in S}
             \cup UNION {{heap[n].parent[i] : i \in 1..Len(heap[n].parent)} : n \in S}
    IN  IF T = S THEN S ELSE Closure(heap, T)

Collect(heap, dir) ==
    LET live == Closure(heap, {Root} \cup {dir[i] : i \in 1..Len(dir)})
    IN  [n \in live |-> heap[n]]

(* Handles stand for object identities, which the program never observes as  *)
(* numbers: the heap is kept up to renaming, numbered in the order a walk    *)
(* from the root through the children maps meets the objects, then the rest  *)
RECURSIVE Walk(_, _, _)
Walk(heap, todo, seen) ==
    IF todo = <<>> THEN seen
    ELSE LET n == Head(todo)
         IN  IF \E i \in 1..Len(seen) : seen[i] = n
             THEN Walk(heap, Tail(todo), seen)
             ELSE Walk(heap,
                       [i \in 1..Len(heap[n].children) |-> heap[n].children[i].node]
                           \o Tail(todo),
                       Append(seen, n))

RECURSIVE Sorted(_)
Sorted(S) ==
    IF S = {} THEN <<>>
    ELSE LET m == CHOOSE x \in S : \A y \in S : x <= y
         IN  <<m>> \o Sorted(S \ {m})

Renumbered(heap) ==
    LET met == Walk(heap, <<Root>>, <<>>)
        order == met \o Sorted(DOMAIN heap \ {met[i] : i \in 1..Len(met)})
        to == [n \in DOMAIN heap |-> (CHOOSE i \in 1..Len(order) : order[i] = n) - 1]
    IN  [k \in 0..(Len(order) - 1) |->
            LET node == heap[order[k + 1]]
            IN  [node EXCEPT
                   !.parent = [i \in 1..Len(node.parent) |-> to[node.parent[i]]],
                   !.children = [i \in 1..Len(node.children) |->
                                    [key |-> node.children[i].key,
                                     node |-> to[node.children[i].node]]]]]

RECURSIVE Join(_)
Join(path) ==
    IF Len(path) = 0 THEN ""
    ELSE IF Len(path) = 1 THEN path[1]
    ELSE path[1] \o "/" \o Join(Tail(path))

RECURSIVE Pushed(_, _)
Pushed(node, path) ==
    IF node = Null THEN path
    ELSE Pushed(nodes[node[1]].parent, path \o <<nodes[node[1]].name>>)

RECURSIVE Unshifted(_, _)
Unshifted(node, path) ==
    IF node = Null THEN path
    ELSE Unshifted(nodes[node[1]].parent, <<nodes[node[1]].name>> \o path)

(* FileSystem.getPath(node) *)
getPath(node) == IF node = Some(Root) THEN "/" ELSE Join(Unshifted(node, <<>>))

getNodeByNameUnchecked(name) ==
    IF name = "/" THEN [res |-> "ok", node |-> Some(Root)]
    ELSE IF cwd = Null THEN [res |-> "TypeError", node |-> Null]
    ELSE IF name = ".." THEN [res |-> "ok", node |-> nodes[cwd[1]].parent]
    ELSE [res |-> "ok", node |-> MapGet(nodes[cwd[1]].children, name)]

(* FileSystem.getNodeByName(name): the node returned, or the error thrown *)
getNodeByName(name) ==
    IF name = "/" THEN [res |-> "ok", node |-> Some(Root)]
    ELSE IF cwd = Null THEN [res |-> "TypeError", node |-> Null]
    ELSE IF name = ".." THEN [res |-> "ok", node |-> nodes[cwd[1]].parent]
    ELSE IF MapHas(nodes[cwd[1]].children, name)
         THEN [res |-> "ok", node |-> MapGet(nodes[cwd[1]].children, name)]
         ELSE [res |-> "NotFound", node |-> Null]

(* a call that throws: nothing but the record of the call changes *)
Throws(op, name, arg, res) ==
    /\ nodes' = nodes
    /\ cwd' = cwd
    /\ last' = Call(op, name, arg, res, Undefined)

changeDirectoryNeedsExecute(dir) ==
    /\ UNCHANGED <<users, currentUser, nextUser, probe, task>>
    /\ LET r == getNodeByName(dir)
       IN  IF r.res # "ok" THEN Throws("changeDirectory", dir, Undefined, r.res)
           ELSE IF r.node # Null
                   /\ ~userHasPermission(nodes[r.node[1]].permissions, EXECUTE,
                                         getCurrentUser)
           THEN Throws("changeDirectory", dir, Undefined, "PermissionDenied")
           ELSE /\ cwd' = r.node
                /\ nodes' = Collect(nodes, r.node)
                /\ last' = Call("changeDirectory", dir, Undefined, "ok", Undefined)

(* FileSystem.changeDirectory(dir) *)
changeDirectory(dir) ==
    /\ UNCHANGED <<users, currentUser, nextUser, probe, task>>
    /\ LET r == getNodeByName(dir)
       IN  IF r.res # "ok" THEN Throws("changeDirectory", dir, Undefined, r.res)
           ELSE /\ cwd' = r.node
                /\ nodes' = Collect(nodes, r.node)
                /\ last' = Call("changeDirectory", dir, Undefined, "ok", Undefined)

(* FileSystem.getCurrentDirectory() *)
getCurrentDirectory ==
    /\ UNCHANGED <<users, currentUser, nextUser, probe, nodes, cwd, task>>
    /\ last' = Call("getCurrentDirectory", Undefined, Undefined, "ok", Some(getPath(cwd)))

InsertedNoParent(name, nodeType) ==
    LET h == NewHandle
        new == Node(name, nodeType, getDefaultPermissions)
    IN  [n \in DOMAIN nodes \cup {h} |->
            IF n = h THEN new
            ELSE IF n = cwd[1]
                 THEN [nodes[n] EXCEPT !.children = MapSet(@, name, h)]
                 ELSE nodes[n]]

InsertedChownsCwd(name, nodeType) ==
    LET h == NewHandle
        new == [Node(name, nodeType, getDefaultPermissions) EXCEPT !.parent = cwd]
    IN  [n \in DOMAIN nodes \cup {h} |->
            IF n = h THEN new
            ELSE IF n = cwd[1]
                 THEN [nodes[n] EXCEPT !.children = MapSet(@, name, h),
                                       !.permissions = getDefaultPermissions]
                 ELSE nodes[n]]

(* the heap after a node of the given type is added under name in cwd *)
Inserted(name, nodeType) ==
    LET h == NewHandle
        new == [Node(name, nodeType, getDefaultPermissions) EXCEPT !.parent = cwd]
    IN  [n \in DOMAIN nodes \cup {h} |->
            IF n = h THEN new
            ELSE IF n = cwd[1]
                 THEN [nodes[n] EXCEPT !.children = MapSet(@, name, h)]
                 ELSE nodes[n]]

makeDirectoryExistsFirst(name) ==
    /\ UNCHANGED <<users, currentUser, nextUser, probe, task>>
    /\ IF cwd = Null THEN Throws("makeDirectory", name, Undefined, "TypeError")
       ELSE IF MapHas(nodes[cwd[1]].children, name)
            THEN Throws("makeDirectory", name, Undefined, "AlreadyExists")
       ELSE IF ~assertCurrentUserCanWrite(cwd[1])
            THEN Throws("makeDirectory", name, Undefined, "PermissionDenied")
       ELSE /\ HasRoom
            /\ nodes' = Renumbered(Inserted(name, Directory))
            /\ cwd' = cwd
            /\ last' = Call("makeDirectory", name, Undefined, "ok", Undefined)

(* FileSystem.makeDirectory(name) *)
makeDirectory(name) ==
    /\ UNCHANGED <<users, currentUser, nextUser, probe, task>>
    /\ IF cwd = Null THEN Throws("makeDirectory", name, Undefined, "TypeError")
       ELSE IF ~assertCurrentUserCanWrite(cwd[1])
            THEN Throws("makeDirectory", name, Undefined, "PermissionDenied")
       ELSE IF MapHas(nodes[cwd[1]].children, name)
            THEN Throws("makeDirectory", name, Undefined, "AlreadyExists")
       ELSE /\ HasRoom
            /\ nodes' = Renumbered(Inserted(name, Directory))
            /\ cwd' = cwd
            /\ last' = Call("makeDirectory", name, Undefined, "ok", Undefined)

(* FileSystem.listDirectory() *)
listDirectory ==
    /\ UNCHANGED <<users, currentUser, nextUser, probe, task>>
    /\ IF cwd = Null THEN Throws("listDirectory", Undefined, Undefined, "TypeError")
       ELSE IF ~assertCurrentUserCanRead(cwd[1])
            THEN Throws("listDirectory", Undefined, Undefined, "PermissionDenied")
       ELSE /\ UNCHANGED <<nodes, cwd>>
            /\ last' = Call("listDirectory", Undefined, Undefined, "ok",
                            Some(MapKeys(nodes[cwd[1]].children)))

removeDirectoryIfEmpty(name) ==
    /\ UNCHANGED <<users, currentUser, nextUser, probe, task>>
    /\ IF cwd = Null THEN Throws("removeDirectory", name, Undefined, "TypeError")
       ELSE IF ~assertCurrentUserCanWrite(cwd[1])
            THEN Throws("removeDirectory", name, Undefined, "PermissionDenied")
       ELSE LET node == MapGet(nodes[cwd[1]].children, name)
            IN  IF node # Undefined /\ isDirectory(node[1])
                   /\ nodes[node[1]].children = <<>>
                THEN /\ nodes' = Renumbered(Collect([nodes EXCEPT ![cwd[1]].children =
                                                             MapDelete(@, name)], cwd))
                     /\ cwd' = cwd
                     /\ last' = Call("removeDirectory", name, Undefined, "ok", Undefined)
                ELSE Throws("removeDirectory", name, Undefined, "NotADirectory")

removeDirectoryFromParent(name) ==
    /\ UNCHANGED <<users, currentUser, nextUser, probe, task>>
    /\ IF cwd = Null THEN Throws("removeDirectory", name, Undefined, "TypeError")
       ELSE IF ~assertCurrentUserCanWrite(cwd[1])
            THEN Throws("removeDirectory", name, Undefined, "PermissionDenied")
       ELSE LET dir == IF nodes[cwd[1]].parent = Null THEN cwd[1]
                       ELSE nodes[cwd[1]].parent[1]
                node == MapGet(nodes[dir].children, name)
            IN  IF node # Undefined /\ isDirectory(node[1])
                THEN /\ nodes' = Collect([nodes EXCEPT ![dir].children =
                                                  MapDelete(@, name)], cwd)
                     /\ cwd' = cwd
                     /\ last' = Call("removeDirectory", name, Undefined, "ok", Undefined)
                ELSE Throws("removeDirectory", name, Undefined, "NotADirectory")

(* FileSystem.removeDirectory(name) *)
removeDirectory(name) ==
    /\ UNCHANGED <<users, currentUser, nextUser, probe, task>>
    /\ IF cwd = Null THEN Throws("removeDirectory", name, Undefined, "TypeError")
       ELSE IF ~assertCurrentUserCanWrite(cwd[1])
            THEN Throws("removeDirectory", name, Undefined, "PermissionDenied")
       ELSE LET node == MapGet(nodes[cwd[1]].children, name)
            IN  IF node # Undefined /\ isDirectory(node[1])
                THEN /\ nodes' = Renumbered(Collect([nodes EXCEPT ![cwd[1]].children =
                                                             MapDelete(@, name)], cwd))
                     /\ cwd' = cwd
                     /\ last' = Call("removeDirectory", name, Undefined, "ok", Undefined)
                ELSE Throws("removeDirectory", name, Undefined, "NotADirectory")

createFileNoExistsCheck(name) ==
    /\ UNCHANGED <<users, currentUser, nextUser, probe, task>>
    /\ IF cwd = Null THEN Throws("createFile", name, Undefined, "TypeError")
       ELSE IF ~assertCurrentUserCanWrite(cwd[1])
            THEN Throws("createFile", name, Undefined, "PermissionDenied")
       ELSE /\ HasRoom
            /\ nodes' = Renumbered(Collect(Inserted(name, File), cwd))
            /\ cwd' = cwd
            /\ last' = Call("createFile", name, Undefined, "ok", Undefined)

(* FileSystem.createFile(name) *)
createFile(name) ==
    /\ UNCHANGED <<users, currentUser, nextUser, probe, task>>
    /\ IF cwd = Null THEN Throws("createFile", name, Undefined, "TypeError")
       ELSE IF ~assertCurrentUserCanWrite(cwd[1])
            THEN Throws("createFile", name, Undefined, "PermissionDenied")
       ELSE IF MapHas(nodes[cwd[1]].children, name)
            THEN Throws("createFile", name, Undefined, "AlreadyExists")
       ELSE /\ HasRoom
            /\ nodes' = Renumbered(Inserted(name, File))
            /\ cwd' = cwd
            /\ last' = Call("createFile", name, Undefined, "ok", Undefined)

(* FileSystem.writeFile(name, content) *)
writeFile(name, content) ==
    /\ UNCHANGED <<users, currentUser, nextUser, probe, task>>
    /\ IF cwd = Null THEN Throws("writeFile", name, Some(content), "TypeError")
       ELSE LET node == MapGet(nodes[cwd[1]].children, name)
            IN  IF node = Undefined
                THEN Throws("writeFile", name, Some(content), "NotFound")
                ELSE IF ~assertCurrentUserCanWrite(node[1])
                THEN Throws("writeFile", name, Some(content), "PermissionDenied")
                ELSE IF ~isFile(node[1])
                THEN Throws("writeFile", name, Some(content), "NotAFile")
                ELSE /\ nodes' = [nodes EXCEPT ![node[1]].content = content]
                     /\ cwd' = cwd
                     /\ last' = Call("writeFile", name, Some(content), "ok", Undefined)

readFileChecksCwd(name) ==
    /\ UNCHANGED <<users, currentUser, nextUser, probe, task>>
    /\ IF cwd = Null THEN Throws("readFile", name, Undefined, "TypeError")
       ELSE LET node == MapGet(nodes[cwd[1]].children, name)
            IN  IF node = Undefined
                THEN Throws("readFile", name, Undefined, "NotFound")
                ELSE IF ~assertCurrentUserCanRead(cwd[1])
                THEN Throws("readFile", name, Undefined, "PermissionDenied")
                ELSE IF ~isFile(node[1])
                THEN Throws("readFile", name, Undefined, "NotAFile")
                ELSE /\ UNCHANGED <<nodes, cwd>>
                     /\ last' = Call("readFile", name, Undefined, "ok",
                                     Some(nodes[node[1]].content))

(* FileSystem.readFile(name) *)
readFile(name) ==
    /\ UNCHANGED <<users, currentUser, nextUser, probe, task>>
    /\ IF cwd = Null THEN Throws("readFile", name, Undefined, "TypeError")
       ELSE LET node == MapGet(nodes[cwd[1]].children, name)
            IN  IF node = Undefined
                THEN Throws("readFile", name, Undefined, "NotFound")
                ELSE IF ~assertCurrentUserCanRead(node[1])
                THEN Throws("readFile", name, Undefined, "PermissionDenied")
                ELSE IF ~isFile(node[1])
                THEN Throws("readFile", name, Undefined, "NotAFile")
                ELSE /\ UNCHANGED <<nodes, cwd>>
                     /\ last' = Call("readFile", name, Undefined, "ok",
                                     Some(nodes[node[1]].content))

moveFileDeleteFirst(oldName, newName) ==
    /\ UNCHANGED <<users, currentUser, nextUser, probe, task>>
    /\ IF cwd = Null THEN Throws("moveFile", oldName, Some(newName), "TypeError")
       ELSE IF ~assertCurrentUserCanWrite(cwd[1])
            THEN Throws("moveFile", oldName, Some(newName), "PermissionDenied")
       ELSE LET fileNode == MapGet(nodes[cwd[1]].children, oldName)
            IN  IF fileNode = Undefined
                THEN Throws("moveFile", oldName, Some(newName), "NotFound")
                ELSE IF ~assertCurrentUserCanWrite(fileNode[1])
                THEN Throws("moveFile", oldName, Some(newName), "PermissionDenied")
                ELSE IF MapHas(MapDelete(nodes[cwd[1]].children, oldName), newName)
                THEN /\ nodes' = Renumbered(Collect(
                                     [nodes EXCEPT ![cwd[1]].children =
                                         MapDelete(@, oldName)], cwd))
                     /\ cwd' = cwd
                     /\ last' = Call("moveFile", oldName, Some(newName),
                                     "AlreadyExists", Undefined)
                ELSE /\ nodes' = Renumbered([n \in DOMAIN nodes |->
                                    IF n = cwd[1]
                                    THEN [nodes[n] EXCEPT !.children =
                                            MapSet(MapDelete(@, oldName), newName,
                                                   fileNode[1])]
                                    ELSE IF n = fileNode[1]
                                    THEN [nodes[n] EXCEPT !.name = newName]
                                    ELSE nodes[n]])
                     /\ cwd' = cwd
                     /\ last' = Call("moveFile", oldName, Some(newName), "ok", Undefined)

moveFileKeepsName(oldName, newName) ==
    /\ UNCHANGED <<users, currentUser, nextUser, probe, task>>
    /\ IF cwd = Null THEN Throws("moveFile", oldName, Some(newName), "TypeError")
       ELSE IF ~assertCurrentUserCanWrite(cwd[1])
            THEN Throws("moveFile", oldName, Some(newName), "PermissionDenied")
       ELSE LET fileNode == MapGet(nodes[cwd[1]].children, oldName)
            IN  IF fileNode = Undefined
                THEN Throws("moveFile", oldName, Some(newName), "NotFound")
                ELSE IF ~assertCurrentUserCanWrite(fileNode[1])
                THEN Throws("moveFile", oldName, Some(newName), "PermissionDenied")
                ELSE IF MapHas(nodes[cwd[1]].children, newName)
                THEN Throws("moveFile", oldName, Some(newName), "AlreadyExists")
                ELSE /\ nodes' = Renumbered([nodes EXCEPT ![cwd[1]].children =
                                        MapSet(MapDelete(@, oldName), newName,
                                               fileNode[1])])
                     /\ cwd' = cwd
                     /\ last' = Call("moveFile", oldName, Some(newName), "ok", Undefined)

moveFileSelfRename(oldName, newName) ==
    /\ UNCHANGED <<users, currentUser, nextUser, probe, task>>
    /\ IF cwd = Null THEN Throws("moveFile", oldName, Some(newName), "TypeError")
       ELSE IF ~assertCurrentUserCanWrite(cwd[1])
            THEN Throws("moveFile", oldName, Some(newName), "PermissionDenied")
       ELSE LET fileNode == MapGet(nodes[cwd[1]].children, oldName)
            IN  IF fileNode = Undefined
                THEN Throws("moveFile", oldName, Some(newName), "NotFound")
                ELSE IF ~assertCurrentUserCanWrite(fileNode[1])
                THEN Throws("moveFile", oldName, Some(newName), "PermissionDenied")
                ELSE IF newName # oldName /\ MapHas(nodes[cwd[1]].children, newName)
                THEN Throws("moveFile", oldName, Some(newName), "AlreadyExists")
                ELSE /\ nodes' = Renumbered([n \in DOMAIN nodes |->
                                    IF n = cwd[1]
                                    THEN [nodes[n] EXCEPT !.children =
                                            MapSet(MapDelete(@, oldName), newName,
                                                   fileNode[1])]
                                    ELSE IF n = fileNode[1]
                                    THEN [nodes[n] EXCEPT !.name = newName]
                                    ELSE nodes[n]])
                     /\ cwd' = cwd
                     /\ last' = Call("moveFile", oldName, Some(newName), "ok", Undefined)

moveFileInPlace(oldName, newName) ==
    /\ UNCHANGED <<users, currentUser, nextUser, probe, task>>
    /\ IF cwd = Null THEN Throws("moveFile", oldName, Some(newName), "TypeError")
       ELSE IF ~assertCurrentUserCanWrite(cwd[1])
            THEN Throws("moveFile", oldName, Some(newName), "PermissionDenied")
       ELSE LET fileNode == MapGet(nodes[cwd[1]].children, oldName)
            IN  IF fileNode = Undefined
                THEN Throws("moveFile", oldName, Some(newName), "NotFound")
                ELSE IF ~assertCurrentUserCanWrite(fileNode[1])
                THEN Throws("moveFile", oldName, Some(newName), "PermissionDenied")
                ELSE IF MapHas(nodes[cwd[1]].children, newName)
                THEN Throws("moveFile", oldName, Some(newName), "AlreadyExists")
                ELSE /\ nodes' = Renumbered([n \in DOMAIN nodes |->
                                    IF n = cwd[1]
                                    THEN [nodes[n] EXCEPT !.children =
                                            [i \in 1..Len(@) |->
                                                IF @[i].key = oldName
                                                THEN [key |-> newName, node |-> fileNode[1]]
                                                ELSE @[i]]]
                                    ELSE IF n = fileNode[1]
                                    THEN [nodes[n] EXCEPT !.name = newName]
                                    ELSE nodes[n]])
                     /\ cwd' = cwd
                     /\ last' = Call("moveFile", oldName, Some(newName), "ok", Undefined)

(* FileSystem.moveFile(oldName, newName) *)
moveFile(oldName, newName) ==
    /\ UNCHANGED <<users, currentUser, nextUser, probe, task>>
    /\ IF cwd = Null THEN Throws("moveFile", oldName, Some(newName), "TypeError")
       ELSE IF ~assertCurrentUserCanWrite(cwd[1])
            THEN Throws("moveFile", oldName, Some(newName), "PermissionDenied")
       ELSE LET fileNode == MapGet(nodes[cwd[1]].children, oldName)
            IN  IF fileNode = Undefined
                THEN Throws("moveFile", oldName, Some(newName), "NotFound")
                ELSE IF ~assertCurrentUserCanWrite(fileNode[1])
                THEN Throws("moveFile", oldName, Some(newName), "PermissionDenied")
                ELSE IF MapHas(nodes[cwd[1]].children, newName)
                THEN Throws("moveFile", oldName, Some(newName), "AlreadyExists")
                ELSE /\ nodes' = Renumbered([n \in DOMAIN nodes |->
                                    IF n = cwd[1]
                                    THEN [nodes[n] EXCEPT !.children =
                                            MapSet(MapDelete(@, oldName), newName,
                                                   fileNode[1])]
                                    ELSE IF n = fileNode[1]
                                    THEN [nodes[n] EXCEPT !.name = newName]
                                    ELSE nodes[n]])
                     /\ cwd' = cwd
                     /\ last' = Call("moveFile", oldName, Some(newName), "ok", Undefined)

(* FileSystem.find(name) *)
find(name) ==
    /\ UNCHANGED <<users, currentUser, nextUser, probe, task>>
    /\ IF cwd = Null THEN Throws("find", name, Undefined, "TypeError")
       ELSE /\ UNCHANGED <<nodes, cwd>>
            /\ last' = Call("find", name, Undefined, "ok",
                            Some(IF MapHas(nodes[cwd[1]].children, name)
                                 THEN MapGet(nodes[cwd[1]].children, name)
                                 ELSE <<>>))

----------------------------------------------------------------------------
(* makeDirectory and createFile step by step: each await hands control back  *)
(* to the caller, who may act before the call resumes                        *)

(* the heap after a node with the given permissions is added under name in   *)
(* cwd                                                                       *)
Placed(name, nodeType, permissions) ==
    LET h == NewHandle
        new == [Node(name, nodeType, permissions) EXCEPT !.parent = cwd]
    IN  [n \in DOMAIN nodes \cup {h} |->
            IF n = h THEN new
            ELSE IF n = cwd[1]
                 THEN [nodes[n] EXCEPT !.children = MapSet(@, name, h)]
                 ELSE nodes[n]]

(* the call, up to the await in assertCurrentUserCanWrite: this.cwd is read, *)
(* and UserManager.getCurrentUser() has returned the user of this moment     *)
awaitAssertCurrentUserCanWrite(op, nodeType, name) ==
    /\ task = Idle
    /\ HasRoom
    /\ UNCHANGED <<users, currentUser, nextUser, probe, nodes, cwd>>
    /\ IF cwd = Null
       THEN /\ task' = Idle
            /\ last' = Call(op, name, Undefined, "TypeError", Undefined)
       ELSE /\ task' = Some([op |-> op, nodeType |-> nodeType, name |-> name,
                             pc |-> "assertCurrentUserCanWrite",
                             node |-> cwd[1], user |-> getCurrentUser,
                             permissions |-> Undefined])
            /\ last' = last

(* the call resumes: the permission test on the user it was handed, the test *)
(* for the name, then getDefaultPermissions() up to its await, by which      *)
(* UserManager.getCurrentUser() has returned the user of this moment         *)
awaitGetDefaultPermissions ==
    /\ task # Idle
    /\ task[1].pc = "assertCurrentUserCanWrite"
    /\ UNCHANGED <<users, currentUser, nextUser, probe, nodes, cwd>>
    /\ LET t == task[1]
       IN  IF ~userHasPermission(nodes[t.node].permissions, WRITE, t.user)
           THEN /\ task' = Idle
                /\ last' = Call(t.op, t.name, Undefined, "PermissionDenied", Undefined)
           ELSE IF MapHas(nodes[cwd[1]].children, t.name)
           THEN /\ task' = Idle
                /\ last' = Call(t.op, t.name, Undefined, "AlreadyExists", Undefined)
           ELSE /\ task' = Some([t EXCEPT !.pc = "getDefaultPermissions",
                                          !.permissions = Some(getDefaultPermissions)])
                /\ last' = last

(* the call resumes with the permissions: new Node, parent, children.set *)
createCompletes ==
    /\ task # Idle
    /\ task[1].pc = "getDefaultPermissions"
    /\ UNCHANGED <<users, currentUser, nextUser, probe>>
    /\ LET t == task[1]
       IN  /\ nodes' = Renumbered(Placed(t.name, t.nodeType, t.permissions[1]))
           /\ cwd' = cwd
           /\ last' = Call(t.op, t.name, Undefined, "ok", Undefined)
    /\ task' = Idle

----------------------------------------------------------------------------
(* UserManager operations *)

(* the User object createUser builds: const user = new User(userId, name,   *)
(* groupId ?? userId)                                                        *)
NewUser(userId, name, groupId) ==
    User(userId, name, IF groupId = Undefined THEN Some(userId) ELSE groupId)

(* UserManager.createUser(name, groupId?) *)
createUser(name, groupId) ==
    /\ nextUser < MaxUsers
    /\ LET userId == uuidv4
           user == NewUser(userId, name, groupId)
       IN  /\ users' = Append(users, user)
           /\ last' = Call("createUser", name, groupId, "ok", Some(user))
    /\ nextUser' = nextUser + 1
    /\ UNCHANGED <<currentUser, nodes, cwd, probe, task>>

(* UserManager.deleteUser(userId) *)
deleteUser(userId) ==
    /\ UNCHANGED <<currentUser, nextUser, nodes, cwd, probe, task>>
    /\ IF findUserById(userId) = Undefined
       THEN /\ users' = users
            /\ last' = Call("deleteUser", userId, Undefined, "UserNotFound", Undefined)
       ELSE /\ users' = SelectSeq(users, LAMBDA u : u.id # userId)
            /\ last' = Call("deleteUser", userId, Undefined, "ok", Undefined)

(* UserManager.setCurrentUserById(userId) *)
setCurrentUserById(userId) ==
    /\ currentUser' = findUserById(userId)
    /\ last' = Call("setCurrentUserById", userId, Undefined, "ok", Undefined)
    /\ UNCHANGED <<users, nextUser, nodes, cwd, probe, task>>

(* UserManager.setCurrentUserByName(name) *)
setCurrentUserByName(name) ==
    /\ UNCHANGED <<users, nextUser, nodes, cwd, probe, task>>
    /\ LET user == findUserByName(name)
       IN  IF user = Undefined
           THEN /\ currentUser' = currentUser
                /\ last' = Call("setCurrentUserByName", name, Undefined,
                                "UserNotFound", Undefined)
           ELSE /\ currentUser' = user
                /\ last' = Call("setCurrentUserByName", name, Undefined, "ok", Undefined)

----------------------------------------------------------------------------
(* The tree and the user manager after construction *)

(* the Permissions object of the unit tests: owner rw, group r, everyone x *)
Fixture ==
    [perms |-> Permissions("1", "100", {READ, WRITE}, {READ}, {EXECUTE}),
     user |-> User("1", "Alice", Some("100"))]

(* the users the tests register before the tree is used: createUser("test") *)
(* and createUser("test2", "test2")                                          *)
Population ==
    <<[name |-> "test", groupId |-> Undefined],
      [name |-> "test2", groupId |-> Some("test2")]>>

Init ==
    /\ users = [i \in 1..Len(Population) |->
                   NewUser("u" \o ToString(i), Population[i].name, Population[i].groupId)]
    /\ currentUser = Undefined
    /\ nextUser = Len(Population)
    /\ nodes = [n \in {Root} |-> RootNode]
    /\ cwd = Some(Root)
    /\ probe = Fixture
    /\ task = Idle
    /\ last = Call("new", Undefined, Undefined, "ok", Undefined)

Tokens == Names \cup {"/", ".."}

Next ==
    \/ \E dir \in Tokens : changeDirectory(dir)
    \/ getCurrentDirectory
    \/ \E name \in Names : makeDirectory(name)
    \/ listDirectory
    \/ \E name \in Names : removeDirectory(name)
    \/ \E name \in Names : createFile(name)
    \/ \E name \in Names, content \in Contents : writeFile(name, content)
    \/ \E name \in Names : readFile(name)
    \/ \E oldName \in Names, newName \in Names : moveFile(oldName, newName)
    \/ \E name \in Names : find(name)
    \/ \E userId \in KnownIds : setCurrentUserById(userId)
    \/ \E name \in UserNames : setCurrentUserByName(name)

Spec == Init /\ [][Next]_vars

(* The tree with a third name, so that a directory can hold two entries and  *)
(* still take a rename; the calls are made anonymously and as the first      *)
(* registered user                                                           *)
WideNames == Names \cup {"c"}

NextWide ==
    \/ \E dir \in WideNames \cup {"/", ".."} : changeDirectory(dir)
    \/ \E name \in WideNames : makeDirectory(name)
    \/ \E name \in WideNames : createFile(name)
    \/ listDirectory
    \/ \E name \in WideNames : removeDirectory(name)
    \/ \E oldName \in WideNames, newName \in WideNames : moveFile(oldName, newName)
    \/ \E name \in WideNames : find(name)
    \/ setCurrentUserByName(Population[1].name)

SpecWide == Init /\ [][NextWide]_vars

(* One caller who does not wait for makeDirectory / createFile to settle     *)
(* before it switches the current user; calls on the tree itself are made    *)
(* one at a time                                                             *)
NextAsync ==
    \/ \E dir \in Tokens : task = Idle /\ changeDirectory(dir)
    \/ \E name \in Names : awaitAssertCurrentUserCanWrite("makeDirectory", Directory, name)
    \/ \E name \in Names : awaitAssertCurrentUserCanWrite("createFile", File, name)
    \/ awaitGetDefaultPermissions
    \/ createCompletes
    \/ \E userId \in KnownIds : setCurrentUserById(userId)
    \/ \E name \in UserNames : setCurrentUserByName(name)

SpecAsync == Init /\ [][NextAsync]_vars

(* The user manager on its own, from its construction *)
InitUsers ==
    /\ users = <<>>
    /\ currentUser = Undefined
    /\ nextUser = 0
    /\ nodes = [n \in {Root} |-> RootNode]
    /\ cwd = Some(Root)
    /\ probe = Fixture
    /\ task = Idle
    /\ last = Call("new", Undefined, Undefined, "ok", Undefined)

NextUsers ==
    \/ \E name \in UserNames, groupId \in GroupArgs : createUser(name, groupId)
    \/ \E userId \in KnownIds : deleteUser(userId)
    \/ \E userId \in KnownIds : setCurrentUserById(userId)
    \/ \E name \in UserNames : setCurrentUserByName(name)

SpecUsers == InitUsers /\ [][NextUsers]_vars

----------------------------------------------------------------------------
(* The Permissions class on its own: any permission sets, any user, as the   *)
(* unit tests build them                                                      *)

ProbeUserIds == {"1", "2"}
ProbeGroupIds == {Undefined, Some("100"), Some("101")}
ProbeSets == {{}, {READ}, {READ, WRITE}, {EXECUTE}, {READ, WRITE, EXECUTE}}

(* new Permissions("1", "100", ownerPerms, groupPerms, everyonePerms) *)
PermissionsNew(ownerPerms, groupPerms, everyonePerms) ==
    /\ probe' = [probe EXCEPT !.perms =
                    Permissions("1", "100", ownerPerms, groupPerms, everyonePerms)]
    /\ last' = Call("Permissions", Undefined, Undefined, "ok", Undefined)
    /\ UNCHANGED <<users, currentUser, nextUser, nodes, cwd, task>>

(* new User(id, name, groupId?) *)
UserNew(id, groupId) ==
    /\ probe' = [probe EXCEPT !.user = User(id, "Alice", groupId)]
    /\ last' = Call("User", Undefined, Undefined, "ok", Undefined)
    /\ UNCHANGED <<users, currentUser, nextUser, nodes, cwd, task>>

(* permissions.userHasPermission(permission, user) and, with no user given,  *)
(* permissions.userHasPermission(permission)                                  *)
userHasPermissionCall(permission, user) ==
    /\ last' = Call("userHasPermission", permission, user, "ok",
                    Some(userHasPermission(probe.perms, permission, user)))
    /\ UNCHANGED <<users, currentUser, nextUser, nodes, cwd, probe, task>>

NextPerm ==
    \/ \E o \in ProbeSets, g \in ProbeSets, e \in ProbeSets : PermissionsNew(o, g, e)
    \/ \E id \in ProbeUserIds, groupId \in ProbeGroupIds : UserNew(id, groupId)
    \/ \E permission \in Permission, user \in {Undefined, Some(probe.user)} :
          userHasPermissionCall(permission, user)

SpecPerm == Init /\ [][NextPerm]_vars

----------------------------------------------------------------------------
(* Well-formedness of the heap *)

TypeOK ==
    /\ DOMAIN nodes \subseteq Handles
    /\ cwd = Null \/ cwd[1] \in DOMAIN nodes

----------------------------------------------------------------------------
(* C1: userHasPermission consults exactly one tier, in strict order: the     *)
(* owner's set when a user is given and its id is the owning user id; else   *)
(* the group's set when a user is given and its group id is the owning group *)
(* id; else, also when no user is given, everyone's set.                     *)
C1_TierOrder ==
    last.op = "userHasPermission" =>
        LET perms == probe.perms
            permission == last.name
            user == last.arg
            tier == IF user # Undefined /\ user[1].id = perms.owningUserId
                    THEN perms.ownerPerms
                    ELSE IF user # Undefined /\ user[1].groupId # Undefined
                            /\ user[1].groupId[1] = perms.owningGroupId
                         THEN perms.groupPerms
                         ELSE perms.everyonePerms
        IN  last.ret = Some(permission \in tier)

(* an owner whose group matches too is refused what only the group's and     *)
(* everyone's sets grant                                                      *)
C1_Witness ==
    /\ last.op = "userHasPermission"
    /\ last.arg # Undefined
    /\ last.arg[1].id = probe.perms.owningUserId
    /\ last.arg[1].groupId = Some(probe.perms.owningGroupId)
    /\ last.name \notin probe.perms.ownerPerms
    /\ last.name \in probe.perms.groupPerms
    /\ last.name \in probe.perms.everyonePerms
    /\ last.ret = Some(FALSE)

----------------------------------------------------------------------------
(* Vocabulary of the properties of the tree *)

Mutators == {"makeDirectory", "createFile", "removeDirectory", "moveFile"}

TreeOps == Mutators \cup {"changeDirectory", "getCurrentDirectory", "listDirectory",
                          "writeFile", "readFile", "find"}

(* the child of the current directory under a name, or Undefined *)
ChildOfCwd(name) == MapGet(nodes[cwd[1]].children, name)

(* whether the active identity holds a permission on a node *)
Holds(permission, n) == userHasPermission(nodes[n].permissions, permission, currentUser)

(* the group createUser gave the registered user of this id: the group asked *)
(* for, or the user's own id when none was asked for                         *)
GroupAtCreation(userId) ==
    LET i == CHOOSE j \in 1..Len(Population) : "u" \o ToString(j) = userId
    IN  IF Population[i].groupId = Undefined THEN userId ELSE Population[i].groupId[1]

(* C2: in every reachable state cwd is non-null and refers to a Directory. *)
C2_CwdIsDirectory ==
    /\ cwd # Null
    /\ cwd[1] \in DOMAIN nodes
    /\ nodes[cwd[1]].nodeType = Directory

(* C3: changeDirectory("..") at the root fails with NotFound and leaves cwd  *)
(* at the root; elsewhere it sets cwd to the parent of the previous cwd.     *)
C3_DotDot ==
    [][(cwd # Null /\ last'.op = "changeDirectory" /\ last'.name = "..") =>
          IF cwd = Some(Root)
          THEN last'.res = "NotFound" /\ cwd' = Some(Root)
          ELSE last'.res = "ok" /\ cwd' = nodes[cwd[1]].parent]_vars

(* C4: changeDirectory(name) on a child of cwd that is a File fails and      *)
(* leaves cwd unchanged.                                                     *)
C4_NoEnteringFiles ==
    [][(/\ cwd # Null
        /\ last'.op = "changeDirectory"
        /\ last'.name \in Names
        /\ ChildOfCwd(last'.name) # Undefined
        /\ nodes[ChildOfCwd(last'.name)[1]].nodeType = File)
       => (last'.res # "ok" /\ cwd' = cwd)]_vars

(* C5: every successful makeDirectory and createFile gives the new node the  *)
(* default permissions of the identity active at the call: owner = its id,   *)
(* owning group = its group id, which is its own id when it was given none,  *)
(* read/write/execute for owner and group, nothing for everyone.             *)
C5_DefaultPermissions ==
    [][(/\ last'.op \in {"makeDirectory", "createFile"}
        /\ last'.res = "ok"
        /\ currentUser # Undefined)
       => LET new == MapGet(nodes'[cwd'[1]].children, last'.name)
          IN  /\ new # Undefined
              /\ ChildOfCwd(last'.name) = Undefined
              /\ nodes'[new[1]].permissions =
                    [owningUserId |-> currentUser[1].id,
                     owningGroupId |-> GroupAtCreation(currentUser[1].id),
                     ownerPerms |-> {READ, WRITE, EXECUTE},
                     groupPerms |-> {READ, WRITE, EXECUTE},
                     everyonePerms |-> {}]]_vars

(* a file just created by the user registered without a group: its owning    *)
(* group is the user's own id                                                *)
C5_Witness ==
    /\ last.op = "createFile"
    /\ last.res = "ok"
    /\ currentUser # Undefined
    /\ Population[1].groupId = Undefined
    /\ currentUser[1].id = "u1"
    /\ nodes[ChildOfCwd(last.name)[1]].permissions.owningUserId = "u1"
    /\ nodes[ChildOfCwd(last.name)[1]].permissions.owningGroupId = "u1"

(* C6: under one unchanged identity, none included, createFile(a) then       *)
(* writeFile(a, X) then readFile(a) all succeed and the read returns X; a    *)
(* read returns what the last successful write stored, and the empty string  *)
(* for a file never written.                                                 *)
C6_RoundTrip ==
    [][/\ (/\ last.op = "createFile" /\ last.res = "ok"
           /\ last'.op = "writeFile" /\ last'.name = last.name)
          => last'.res = "ok"
       /\ (/\ last.op = "writeFile" /\ last.res = "ok"
           /\ last'.op = "readFile" /\ last'.name = last.name)
          => (last'.res = "ok" /\ last'.ret = last.arg)
       /\ (/\ last.op = "createFile" /\ last.res = "ok"
           /\ last'.op = "readFile" /\ last'.name = last.name
           /\ last'.res = "ok")
          => last'.ret = Some("")]_vars

(* C7: makeDirectory, createFile, removeDirectory and moveFile fail with     *)
(* PermissionDenied whenever the active identity lacks Write on cwd, for any *)
(* name argument, and change nothing; moveFile also fails with               *)
(* PermissionDenied when the identity has Write on cwd and lacks it on the   *)
(* node being moved.                                                         *)
C7_WriteOnCwd ==
    [][/\ (cwd # Null /\ last'.op \in Mutators /\ ~Holds(WRITE, cwd[1]))
          => (last'.res = "PermissionDenied" /\ nodes' = nodes /\ cwd' = cwd)
       /\ (/\ cwd # Null /\ last'.op = "moveFile" /\ Holds(WRITE, cwd[1])
           /\ ChildOfCwd(last'.name) # Undefined
           /\ ~Holds(WRITE, ChildOfCwd(last'.name)[1]))
          => (last'.res = "PermissionDenied" /\ nodes' = nodes /\ cwd' = cwd)]_vars

(* makeDirectory refused for lack of Write on cwd under a name that exists   *)
C7_Witness ==
    /\ last.op = "makeDirectory"
    /\ last.res = "PermissionDenied"
    /\ cwd # Null
    /\ ~Holds(WRITE, cwd[1])
    /\ ChildOfCwd(last.name) # Undefined

(* C8: readFile / writeFile end NotFound when the name is no child of cwd;   *)
(* else PermissionDenied when the identity lacks Read / Write on the target, *)
(* whatever cwd allows; else not-a-file when the target is a Directory; else *)
(* they succeed.  A call that does not succeed changes nothing.              *)
C8_ReadWriteOrder ==
    [][(cwd # Null /\ last'.op \in {"readFile", "writeFile"})
       => LET node == ChildOfCwd(last'.name)
              permission == IF last'.op = "readFile" THEN READ ELSE WRITE
          IN  /\ last'.res =
                    IF node = Undefined THEN "NotFound"
                    ELSE IF ~Holds(permission, node[1]) THEN "PermissionDenied"
                    ELSE IF nodes[node[1]].nodeType = Directory THEN "NotAFile"
                    ELSE "ok"
              /\ last'.res # "ok" => (nodes' = nodes /\ cwd' = cwd)]_vars

(* a write to a directory by an identity that may write it: not a file *)
C8_Witness ==
    /\ last.op = "writeFile"
    /\ last.res = "NotAFile"
    /\ cwd # Null
    /\ ChildOfCwd(last.name) # Undefined
    /\ nodes[ChildOfCwd(last.name)[1]].nodeType = Directory
    /\ Holds(WRITE, ChildOfCwd(last.name)[1])
    /\ currentUser # Undefined

(* C9: a read or write of a file is decided against the identity active at   *)
(* that call: the user who owns the file succeeds, whoever was active        *)
(* before, and a user who shares neither the owner's id nor the owning group *)
(* is refused.                                                               *)
C9_ActiveIdentity ==
    [][(/\ cwd # Null
        /\ last'.op \in {"readFile", "writeFile"}
        /\ ChildOfCwd(last'.name) # Undefined
        /\ nodes[ChildOfCwd(last'.name)[1]].nodeType = File
        /\ currentUser # Undefined)
       => LET perms == nodes[ChildOfCwd(last'.name)[1]].permissions
              user == currentUser[1]
          IN  /\ user.id = perms.owningUserId => last'.res = "ok"
              /\ (/\ perms.owningUserId \in {users[i].id : i \in 1..Len(users)}
                  /\ user.id # perms.owningUserId
                  /\ user.groupId # Some(perms.owningGroupId))
                 => last'.res = "PermissionDenied"]_vars

(* a user who shares nothing with the owner is refused the read *)
C9_Witness ==
    /\ last.op = "readFile"
    /\ last.res = "PermissionDenied"
    /\ cwd # Null
    /\ currentUser # Undefined
    /\ currentUser[1].id = "u2"
    /\ nodes[ChildOfCwd(last.name)[1]].permissions.owningUserId = "u1"

(* C10: an operation of the tree that fails leaves every node and cwd as     *)
(* they were before the call.                                                *)
C10_FailureChangesNothing ==
    [][(last'.op \in TreeOps /\ last'.res # "ok")
       => (nodes' = nodes /\ cwd' = cwd)]_vars

(* moveFile refused at its last check, after both permission checks passed *)
C10_Witness ==
    /\ last.op = "moveFile"
    /\ last.res = "AlreadyExists"
    /\ last.arg # Some(last.name)

----------------------------------------------------------------------------
(* A node and what hangs under it, as values: object identities left out *)

RECURSIVE Subtree(_, _)
Subtree(heap, n) ==
    [name |-> heap[n].name, nodeType |-> heap[n].nodeType,
     content |-> heap[n].content, permissions |-> heap[n].permissions,
     children |-> [i \in 1..Len(heap[n].children) |->
                      [key |-> heap[n].children[i].key,
                       node |-> Subtree(heap, heap[n].children[i].node)]]]

(* a node as its constructor leaves it, seen as a value *)
Leaf(name, nodeType, permissions) ==
    [name |-> name, nodeType |-> nodeType, content |-> "",
     permissions |-> permissions, children |-> <<>>]

(* the kind a creating operation asks for *)
KindOf(op) == IF op = "makeDirectory" THEN Directory ELSE File

(* C11 as stated: makeDirectory(name) and createFile(name) fail with         *)
(* AlreadyExists whenever name is already a child of cwd, whatever the kind  *)
(* of that child, and change nothing.                                        *)
C11_AlreadyExistsWhenever ==
    [][(/\ cwd # Null
        /\ last'.op \in {"makeDirectory", "createFile"}
        /\ ChildOfCwd(last'.name) # Undefined)
       => (last'.res = "AlreadyExists" /\ nodes' = nodes /\ cwd' = cwd)]_vars

(* C11 as amended: for an identity with Write on cwd, makeDirectory(name)    *)
(* and createFile(name) fail with AlreadyExists whenever name is already a   *)
(* child of cwd, whatever its kind, and nothing changes; when name is absent *)
(* exactly one child of the requested kind is appended under name, empty,    *)
(* with parent = cwd, and nothing else in cwd changes.                       *)
C11_AlreadyExists ==
    [][(/\ cwd # Null
        /\ last'.op \in {"makeDirectory", "createFile"}
        /\ Holds(WRITE, cwd[1]))
       => IF ChildOfCwd(last'.name) # Undefined
          THEN last'.res = "AlreadyExists" /\ nodes' = nodes /\ cwd' = cwd
          ELSE /\ last'.res = "ok"
               /\ cwd' = cwd
               /\ Cardinality(DOMAIN nodes') = Cardinality(DOMAIN nodes) + 1
               /\ LET before == Subtree(nodes, cwd[1])
                      after == Subtree(nodes', cwd'[1])
                      new == MapGet(nodes'[cwd'[1]].children, last'.name)
                  IN  /\ new # Undefined
                      /\ nodes'[new[1]].parent = cwd'
                      /\ after = [before EXCEPT !.children =
                            Append(@, [key |-> last'.name,
                                       node |-> Leaf(last'.name, KindOf(last'.op),
                                                     nodes'[new[1]].permissions)])]]_vars

(* createFile refused over an existing directory of the same name *)
C11_Witness ==
    /\ last.op = "createFile"
    /\ last.res = "AlreadyExists"
    /\ cwd # Null
    /\ Holds(WRITE, cwd[1])
    /\ ChildOfCwd(last.name) # Undefined
    /\ nodes[ChildOfCwd(last.name)[1]].nodeType = Directory

(* C12: after a successful moveFile(a, b) in cwd, find(b) returns exactly    *)
(* one node, named b, and find(a) returns the empty sequence; the moved node *)
(* keeps its kind, content, permissions, children and parent, and no other   *)
(* child of cwd is added, removed or changed.                                *)
C12_MoveThenFind ==
    [][/\ (last'.op = "moveFile" /\ last'.res = "ok")
          => LET a == last'.name
                 b == last'.arg[1]
                 before == Subtree(nodes, cwd[1])
                 after == Subtree(nodes', cwd'[1])
                 moved == Subtree(nodes, ChildOfCwd(a)[1])
                 target == MapGet(nodes'[cwd'[1]].children, b)
             IN  /\ cwd' = cwd
                 /\ target # Undefined
                 /\ nodes'[target[1]].parent = cwd'
                 /\ nodes[ChildOfCwd(a)[1]].parent = cwd
                 /\ Cardinality(DOMAIN nodes') = Cardinality(DOMAIN nodes)
                 /\ after = [before EXCEPT !.children =
                        Append(SelectSeq(@, LAMBDA e : e.key # a),
                               [key |-> b, node |-> [moved EXCEPT !.name = b]])]
       /\ (last.op = "moveFile" /\ last.res = "ok" /\ last'.op = "find")
          => /\ last'.res = "ok"
             /\ last'.name = last.arg[1]
                   => /\ Len(last'.ret[1]) = 1
                      /\ nodes[last'.ret[1][1]].name = last.arg[1]
             /\ last'.name = last.name => last'.ret[1] = <<>>]_vars

(* the first of two entries has just been renamed: the other entry is still *)
(* there and the renamed node answers to its new name                        *)
C12_Witness ==
    /\ last.op = "moveFile"
    /\ last.res = "ok"
    /\ Len(nodes[cwd[1]].children) = 2
    /\ nodes[cwd[1]].children[2].key = last.arg[1]
    /\ nodes[ChildOfCwd(last.arg[1])[1]].name = last.arg[1]
    /\ nodes[ChildOfCwd(last.arg[1])[1]].nodeType = Directory
    /\ ChildOfCwd(last.name) = Undefined

(* C13: moveFile(oldName, newName), for an identity allowed to write (cwd,   *)
(* and the node under oldName when there is one), fails with NotFound when   *)
(* oldName is not a child of cwd, and with AlreadyExists when oldName is a   *)
(* child and newName is already one, newName = oldName included; in both     *)
(* cases the children of cwd, and every node, are unchanged; otherwise the   *)
(* call succeeds.                                                            *)
C13_MoveErrors ==
    [][(/\ cwd # Null
        /\ last'.op = "moveFile"
        /\ Holds(WRITE, cwd[1])
        /\ ChildOfCwd(last'.name) # Undefined => Holds(WRITE, ChildOfCwd(last'.name)[1]))
       => /\ last'.res =
                IF ChildOfCwd(last'.name) = Undefined THEN "NotFound"
                ELSE IF ChildOfCwd(last'.arg[1]) # Undefined THEN "AlreadyExists"
                ELSE "ok"
          /\ last'.res # "ok" => (nodes' = nodes /\ cwd' = cwd)]_vars

(* a node moved onto its own name: refused, and still there *)
C13_Witness ==
    /\ last.op = "moveFile"
    /\ last.res = "AlreadyExists"
    /\ last.arg = Some(last.name)
    /\ cwd # Null
    /\ Holds(WRITE, cwd[1])
    /\ ChildOfCwd(last.name) # Undefined
    /\ Holds(WRITE, ChildOfCwd(last.name)[1])

(* the objects of a subtree: a node and everything under it *)
RECURSIVE Under(_, _)
Under(heap, S) ==
    LET T == S \cup UNION {{heap[n].children[i].node : i \in 1..Len(heap[n].children)} :
                              n \in S}
    IN  IF T = S THEN S ELSE Under(heap, T)

(* C14: removeDirectory(name), for an identity with Write on cwd, succeeds   *)
(* exactly when name is a child of cwd of kind Directory, empty or not,      *)
(* whatever the permissions on it and under it; on success the entry and the *)
(* whole subtree are gone, the other entries are as they were, and a         *)
(* listDirectory that follows does not list name.  When name is absent or    *)
(* names a File the call fails and nothing changes.                          *)
C14_RemoveDirectory ==
    [][/\ (cwd # Null /\ last'.op = "removeDirectory" /\ Holds(WRITE, cwd[1]))
          => LET node == ChildOfCwd(last'.name)
             IN  IF node # Undefined /\ nodes[node[1]].nodeType = Directory
                 THEN /\ last'.res = "ok"
                      /\ cwd' = cwd
                      /\ Subtree(nodes', cwd'[1]) =
                            [Subtree(nodes, cwd[1]) EXCEPT !.children =
                                SelectSeq(@, LAMBDA e : e.key # last'.name)]
                      /\ Cardinality(DOMAIN nodes') =
                            Cardinality(DOMAIN nodes) - Cardinality(Under(nodes, {node[1]}))
                 ELSE /\ last'.res \in {"NotFound", "NotADirectory"}
                      /\ nodes' = nodes
                      /\ cwd' = cwd
       /\ (/\ last.op = "removeDirectory" /\ last.res = "ok"
           /\ last'.op = "listDirectory" /\ last'.res = "ok")
          => \A i \in 1..Len(last'.ret[1]) : last'.ret[1][i] # last.name]_vars

(* a directory removed by the anonymous caller, who holds no permission on   *)
(* any node but the root                                                     *)
C14_Witness ==
    /\ last.op = "removeDirectory"
    /\ last.res = "ok"
    /\ currentUser = Undefined
    /\ cwd = Some(Root)
    /\ ChildOfCwd(last.name) = Undefined

(* the entries that lead to a node: (directory, position) pairs *)
EntriesTo(c) ==
    {<<d, i>> \in (DOMAIN nodes) \X (1..(MaxNodes + 1)) :
        i <= Len(nodes[d].children) /\ nodes[d].children[i].node = c}

(* C15: in every reachable state the root has no parent; every entry         *)
(* (k -> c) of a node d's children has c.parent = d and c.name = k; names    *)
(* are unique within one children map; every node is reached from the root   *)
(* by exactly one chain of children: no entry leads to the root, exactly one *)
(* entry leads to any other node, and nothing lies outside the root's tree.  *)
C15_TreeShape ==
    /\ Root \in DOMAIN nodes
    /\ nodes[Root].parent = Null
    /\ \A d \in DOMAIN nodes :
          /\ \A i \in 1..Len(nodes[d].children) :
                LET c == nodes[d].children[i].node
                IN  /\ c \in DOMAIN nodes
                    /\ nodes[c].parent = Some(d)
                    /\ nodes[c].name = nodes[d].children[i].key
          /\ \A i, j \in 1..Len(nodes[d].children) :
                nodes[d].children[i].key = nodes[d].children[j].key => i = j
    /\ EntriesTo(Root) = {}
    /\ \A c \in DOMAIN nodes \ {Root} : Cardinality(EntriesTo(c)) = 1
    /\ Under(nodes, {Root}) = DOMAIN nodes

(* a tree two levels deep in which a node has just been renamed *)
C15_Witness ==
    /\ last.op = "moveFile"
    /\ last.res = "ok"
    /\ \E n \in DOMAIN nodes :
          /\ nodes[n].parent # Null
          /\ nodes[n].parent[1] # Root
    /\ C15_TreeShape

(* C16: in every reachable state a node of kind File has no children and a   *)
(* node of kind Directory has empty content.                                 *)
C16_KindInvariant ==
    \A n \in DOMAIN nodes :
        /\ nodes[n].nodeType = File => nodes[n].children = <<>>
        /\ nodes[n].nodeType = Directory => nodes[n].content = ""

(* the path the claim describes for a node below the root: "/" and the names *)
(* from the root's child down to the node, with "/" between them             *)
RECURSIVE PathBelowRoot(_)
PathBelowRoot(n) ==
    IF nodes[n].parent = Some(Root) THEN "/" \o nodes[n].name
    ELSE PathBelowRoot(nodes[n].parent[1]) \o "/" \o nodes[n].name

(* C17: getCurrentDirectory() returns "/" on a new tree and whenever cwd is  *)
(* the root; with cwd below the root it returns "/" followed by the current  *)
(* names of the nodes from the root's child down to cwd, joined by "/".      *)
C17_CurrentPath ==
    (last.op = "getCurrentDirectory" /\ cwd # Null)
    => /\ last.res = "ok"
       /\ last.ret = Some(IF cwd = Some(Root) THEN "/" ELSE PathBelowRoot(cwd[1]))

(* the path of a node two levels below the root *)
C17_Witness ==
    /\ last.op = "getCurrentDirectory"
    /\ cwd # Null
    /\ cwd # Some(Root)
    /\ nodes[cwd[1]].parent # Some(Root)
    /\ last.ret = Some("/" \o nodes[nodes[cwd[1]].parent[1]].name
                          \o "/" \o nodes[cwd[1]].name)

(* the names under a node in the order of their entries, level by level *)
RECURSIVE Order(_, _)
Order(heap, n) ==
    [i \in 1..Len(heap[n].children) |->
        [key |-> heap[n].children[i].key,
         under |-> Order(heap, heap[n].children[i].node)]]

(* the positions to follow from the root to reach a node *)
RECURSIVE IndexPath(_)
IndexPath(n) ==
    IF nodes[n].parent = Null THEN <<>>
    ELSE LET d == nodes[n].parent[1]
         IN  Append(IndexPath(d),
                    CHOOSE i \in 1..Len(nodes[d].children) : nodes[d].children[i].node = n)

(* an order with the part at the end of a path of positions replaced *)
RECURSIVE Graft(_, _, _)
Graft(order, path, sub) ==
    IF path = <<>> THEN sub
    ELSE [order EXCEPT ![Head(path)].under = Graft(@, Tail(path), sub)]

(* C18: listDirectory() fails with PermissionDenied when the active identity *)
(* lacks Read on cwd, whatever else it holds there; otherwise it returns the *)
(* names of cwd's children, each once, in the order of insertion, a renamed  *)
(* entry counting as inserted at its rename: a creation appends its name, a  *)
(* rename drops the old name and appends the new one, a removal drops the    *)
(* name, and no other call changes the order of any directory.               *)
C18_ListDirectory ==
    [][/\ (cwd # Null /\ last'.op = "listDirectory")
          => /\ nodes' = nodes /\ cwd' = cwd
             /\ IF ~Holds(READ, cwd[1])
                THEN last'.res = "PermissionDenied"
                ELSE /\ last'.res = "ok"
                     /\ last'.ret = Some([i \in 1..Len(Order(nodes, cwd[1])) |->
                                             Order(nodes, cwd[1])[i].key])
                     /\ \A i, j \in 1..Len(last'.ret[1]) :
                           last'.ret[1][i] = last'.ret[1][j] => i = j
       /\ IF last'.op \in Mutators /\ last'.res = "ok"
          THEN LET before == Order(nodes, cwd[1])
                   after == Order(nodes', cwd'[1])
                   name == last'.name
               IN  /\ cwd' = cwd
                   /\ Order(nodes', Root) = Graft(Order(nodes, Root), IndexPath(cwd[1]), after)
                   /\ after =
                        IF last'.op \in {"makeDirectory", "createFile"}
                        THEN Append(before, [key |-> name, under |-> <<>>])
                        ELSE IF last'.op = "removeDirectory"
                        THEN SelectSeq(before, LAMBDA e : e.key # name)
                        ELSE Append(SelectSeq(before, LAMBDA e : e.key # name),
                                    [key |-> last'.arg[1],
                                     under |-> Order(nodes, ChildOfCwd(name)[1])])
          ELSE nodes' = nodes \/ Order(nodes', Root) = Order(nodes, Root)]_vars

(* a registered user refused the listing of a directory made anonymously *)
C18_Witness ==
    /\ last.op = "listDirectory"
    /\ last.res = "PermissionDenied"
    /\ currentUser # Undefined
    /\ cwd # Null
    /\ cwd # Some(Root)
    /\ ~Holds(READ, cwd[1])

C20_CheckedIdentityOwns ==
    [][(/\ task # Idle
        /\ task' = Idle
        /\ last'.op \in {"makeDirectory", "createFile"}
        /\ last'.res = "ok")
       => LET checked == task[1].user
              new == MapGet(nodes'[cwd'[1]].children, last'.name)
          IN  /\ new # Undefined
              /\ nodes'[new[1]].permissions.owningUserId =
                    (IF checked = Undefined THEN "" ELSE checked[1].id)
              /\ nodes'[new[1]].permissions.owningGroupId =
                    (IF OptGroupId(checked) = Undefined THEN ""
                     ELSE OptGroupId(checked)[1])]_vars

(* the nodes above a node, following parent *)
RECURSIVE Ancestors(_)
Ancestors(n) ==
    IF nodes[n].parent = Null THEN {}
    ELSE {nodes[n].parent[1]} \cup Ancestors(nodes[n].parent[1])

(* C21: in every reachable state the node cwd refers to, and every ancestor  *)
(* of it, is part of the tree under the root: it is reached from the root    *)
(* through children, its chain of parents ends at the root, and each node of *)
(* the chain is still an entry of its parent.                                *)
C21_CwdAttached ==
    cwd # Null =>
        /\ cwd[1] \in DOMAIN nodes
        /\ ({cwd[1]} \cup Ancestors(cwd[1])) \subseteq Under(nodes, {Root})
        /\ cwd = Some(Root) \/ Root \in Ancestors(cwd[1])
        /\ \A n \in ({cwd[1]} \cup Ancestors(cwd[1])) \ {Root} :
              MapGet(nodes[nodes[n].parent[1]].children, nodes[n].name) = Some(n)

(* a directory has just been removed from a current directory that lies      *)
(* below the root                                                            *)
C21_Witness ==
    /\ last.op = "removeDirectory"
    /\ last.res = "ok"
    /\ cwd # Null
    /\ cwd # Some(Root)
    /\ Root \in Ancestors(cwd[1])

(* the permission records under a node, entry by entry, level by level *)
RECURSIVE PermView(_, _)
PermView(heap, n) ==
    [i \in 1..Len(heap[n].children) |->
        [key |-> heap[n].children[i].key,
         permissions |-> heap[heap[n].children[i].node].permissions,
         under |-> PermView(heap, heap[n].children[i].node)]]

(* every identity there can be: none, or a registered user *)
Identities == {Undefined} \cup {Some(users[i]) : i \in 1..Len(users)}

(* C22: the permission record of a node is fixed at its creation: a call     *)
(* that adds, renames or removes an entry of cwd leaves the record of every  *)
(* node that stays as it was (the renamed node's too), and any other call,   *)
(* identity switches included, leaves every record as it was; the root keeps *)
(* read/write/execute for everyone, so every identity, none included, passes *)
(* the Read and Write checks on the root.                                    *)
C22_PermissionsFixed ==
    [][/\ nodes'[Root].permissions = nodes[Root].permissions
       /\ nodes[Root].permissions.everyonePerms = {READ, WRITE, EXECUTE}
       /\ \A user \in Identities :
             /\ userHasPermission(nodes'[Root].permissions, READ, user)
             /\ userHasPermission(nodes'[Root].permissions, WRITE, user)
       /\ (cwd = Some(Root) /\ last'.op \in Mutators \cup {"listDirectory"})
             => (last'.res # "PermissionDenied"
                 \/ (/\ last'.op = "moveFile"
                     /\ ChildOfCwd(last'.name) # Undefined
                     /\ ~Holds(WRITE, ChildOfCwd(last'.name)[1])))
       /\ IF last'.op \in Mutators /\ last'.res = "ok"
          THEN LET before == PermView(nodes, cwd[1])
                   after == PermView(nodes', cwd'[1])
                   name == last'.name
                   rest == SelectSeq(before, LAMBDA e : e.key # name)
               IN  /\ PermView(nodes', Root) =
                        Graft(PermView(nodes, Root), IndexPath(cwd[1]), after)
                   /\ nodes'[cwd'[1]].permissions = nodes[cwd[1]].permissions
                   /\ IF last'.op \in {"makeDirectory", "createFile"}
                      THEN /\ Len(after) = Len(before) + 1
                           /\ SubSeq(after, 1, Len(before)) = before
                           /\ after[Len(after)].key = name
                           /\ after[Len(after)].under = <<>>
                      ELSE IF last'.op = "removeDirectory"
                      THEN after = rest
                      ELSE after = Append(rest,
                              [key |-> last'.arg[1],
                               permissions |-> nodes[ChildOfCwd(name)[1]].permissions,
                               under |-> PermView(nodes, ChildOfCwd(name)[1])])
          ELSE nodes' = nodes \/ PermView(nodes', Root) = PermView(nodes, Root)]_vars

(* a user has just created an entry at the root beside an entry that another *)
(* user owns                                                                 *)
C22_Witness ==
    /\ last.op \in {"makeDirectory", "createFile"}
    /\ last.res = "ok"
    /\ cwd = Some(Root)
    /\ currentUser # Undefined
    /\ Len(nodes[Root].children) = 2
    /\ nodes[nodes[Root].children[1].node].permissions.owningUserId
          \notin {"", currentUser[1].id}
    /\ nodes[nodes[Root].children[2].node].permissions.owningUserId = currentUser[1].id

----------------------------------------------------------------------------
(* Navigation seen on names alone: the tree as Order gives it (no owner, no  *)
(* permission set, no content) and cwd as the positions leading to it        *)

(* where cwd is: nowhere, or the positions from the root *)
Position == IF cwd = Null THEN Null ELSE Some(IndexPath(cwd[1]))

(* the entries found at the end of a path of positions *)
RECURSIVE EntriesAt(_, _)
EntriesAt(order, path) ==
    IF path = <<>> THEN order
    ELSE EntriesAt(order[Head(path)].under, Tail(path))

(* the names met along a path of positions, each after a "/" *)
RECURSIVE NamesAlong(_, _)
NamesAlong(order, path) ==
    IF path = <<>> THEN ""
    ELSE "/" \o order[Head(path)].key
             \o NamesAlong(order[Head(path)].under, Tail(path))

(* the node at the end of a path of positions *)
NodeAt(path) == CHOOSE h \in DOMAIN nodes : IndexPath(h) = path

(* where changeDirectory(dir) leads from a position, on names alone *)
Resolved(order, pos, dir) ==
    IF dir = "/" THEN [res |-> "ok", pos |-> Some(<<>>)]
    ELSE IF pos = Null THEN [res |-> "TypeError", pos |-> pos]
    ELSE IF dir = ".."
         THEN [res |-> "ok",
               pos |-> IF pos[1] = <<>> THEN Null
                       ELSE Some(SubSeq(pos[1], 1, Len(pos[1]) - 1))]
    ELSE LET entries == EntriesAt(order, pos[1])
         IN  IF \E i \in 1..Len(entries) : entries[i].key = dir
             THEN [res |-> "ok",
                   pos |-> Some(Append(pos[1],
                              CHOOSE i \in 1..Len(entries) : entries[i].key = dir))]
             ELSE [res |-> "NotFound", pos |-> pos]

(* C23: the outcome of changeDirectory, getCurrentDirectory and find is a    *)
(* function of the names in the tree, of where cwd is and of the argument    *)
(* alone: it is the same whoever the active identity is, none included, and  *)
(* whatever the permission records of the nodes hold, Execute included; the  *)
(* calls change no node.                                                     *)
C23_NavigationIgnoresIdentity ==
    [][(last'.op \in {"changeDirectory", "getCurrentDirectory", "find"})
       => LET order == Order(nodes, Root)
              pos == Position
          IN  /\ nodes' = nodes
              /\ last'.op = "changeDirectory"
                    => LET to == Resolved(order, pos, last'.name)
                       IN  /\ last'.res = to.res
                           /\ cwd' = IF to.pos = Null THEN Null
                                     ELSE Some(NodeAt(to.pos[1]))
              /\ last'.op = "getCurrentDirectory"
                    => /\ last'.res = "ok"
                       /\ cwd' = cwd
                       /\ last'.ret = Some(IF pos = Null THEN ""
                                           ELSE IF pos[1] = <<>> THEN "/"
                                           ELSE NamesAlong(order, pos[1]))
              /\ last'.op = "find"
                    => /\ cwd' = cwd
                       /\ IF pos = Null THEN last'.res = "TypeError"
                          ELSE LET to == Resolved(order, pos, last'.name)
                               IN  /\ last'.res = "ok"
                                   /\ last'.ret =
                                         Some(IF to.res = "ok"
                                              THEN <<NodeAt(to.pos[1])>>
                                              ELSE <<>>)]_vars

(* a registered user who holds no permission at all on the current directory *)
(* has entered it and found its child by name                                *)
C23_Witness ==
    /\ last.op = "find"
    /\ last.res = "ok"
    /\ Len(last.ret[1]) = 1
    /\ cwd # Null
    /\ cwd # Some(Root)
    /\ currentUser # Undefined
    /\ \A permission \in Permission : ~Holds(permission, cwd[1])
    /\ nodes[cwd[1]].nodeType = Directory

----------------------------------------------------------------------------
(* C24: after any sequence of createUser, deleteUser, setCurrentUserById and *)
(* setCurrentUserByName the current user is none or a registered user, whom  *)
(* findUserById returns for its id; setting the current user to an unknown   *)
(* id or name fails with "User not found" and leaves the current user as it  *)
(* was.                                                                      *)
C24_CurrentUserRegistered ==
    [][/\ currentUser' # Undefined
          => \E i \in 1..Len(users') : users'[i] = currentUser'[1]
       /\ (/\ last'.op = "setCurrentUserById"
           /\ findUserById(last'.name) = Undefined)
          => (last'.res = "UserNotFound" /\ currentUser' = currentUser)
       /\ (/\ last'.op = "setCurrentUserByName"
           /\ findUserByName(last'.name) = Undefined)
          => (last'.res = "UserNotFound" /\ currentUser' = currentUser)]_vars

====
